---- MODULE Spec2Model ----
(***************************************************************************)
(* Model of the tiling resize grab of cosmic-comp                          *)
(* (src/shell/layout/tiling/grabs/resize.rs): the ResizeForkTarget pointer *)
(* target, the ResizeForkGrab pointer grab and the part of the seat, the   *)
(* tiling layer and the event loop they act on.                            *)
(*                                                                         *)
(* One output, one seat.  Rust indices are 0-based; a TLA+ sequence is     *)
(* 1-based, so sizes[left_up_idx] of the source is sizes[left_up_idx + 1]  *)
(* here.  Pointer locations are f64 in the source; here a coordinate is an *)
(* integer number of 1/SubPixel logical pixels, so f64::round is modelled  *)
(* on a fixed-point value.                                                 *)
(***************************************************************************)
EXTENDS Integers, Sequences, FiniteSets, TLC

VARIABLES
    output_alive,      \* the WeakOutput of target and grab still upgrades
    queues,            \* tiling_layer.queues.get(&output): [has, trees]
    pending_blockers,  \* tiling_layer.pending_blockers
    pressed,           \* the seat pointer's pressed buttons
    location,          \* pointer.current_location()
    grab,              \* the seat pointer's active grab
    idle,              \* closures queued with event_loop_handle.insert_idle
    drags,             \* how many times a ResizeForkGrab has been armed (history)
    armed_siblings,    \* the two children at the boundary when the grab was set (history)
    origin,            \* left size and pointer location when the grab was set (history)
    session_lock,      \* self.common.session_lock: Option<SessionLock>
    lock_log,          \* the calls of the session lock handler since the last lock (history)
    ev                 \* what the last dispatched event did (history)

vars == <<output_alive, queues, pending_blockers, pressed, location, grab, idle, drags, armed_siblings,
          origin, session_lock, lock_log, ev>>

----------------------------------------------------------------------------
(* Bounds of the model *)

\* A pointer coordinate is a multiple of 1/SubPixel logical pixels.
SubPixel == 2
\* Largest number of trees the queue of an output holds before the oldest is dropped.
MaxTrees == 2
\* Largest number of drags (arming presses) in one behaviour.
MaxDrags == 1
\* The render pipeline takes the pending blockers before more than this many wait.
MaxBlockers == 3
\* Number of lock surfaces a lock client creates.
MaxSurfaces == 2

----------------------------------------------------------------------------
(* Values *)

Vertical == "Vertical"
Horizontal == "Horizontal"
Orientations == {Vertical, Horizontal}

\* linux/input-event-codes.h BTN_LEFT, the button ResizeForkTarget::button arms on
BTN_LEFT == 272
Buttons == {BTN_LEFT, BTN_LEFT + 1}

NodeIds == {"g", "w1", "w2", "w3"}

NoNode == [kind |-> "None", children |-> <<>>, sizes |-> <<>>, orientation |-> Vertical]
Mapped == [kind |-> "Mapped", children |-> <<>>, sizes |-> <<>>, orientation |-> Vertical]
Group(o, ch, sz) == [kind |-> "Group", children |-> ch, sizes |-> sz, orientation |-> o]

NoGrab == [active |-> FALSE, last_loc |-> <<0, 0>>, node |-> "g", left_up_idx |-> 0,
           orientation |-> Vertical, button |-> 0]

Px(x, y) == <<x * SubPixel, y * SubPixel>>

\* the location is a whole number of logical pixels on both axes
WholePx(loc) == loc[1] % SubPixel = 0 /\ loc[2] % SubPixel = 0

NoOrigin == [size |-> 0, loc |-> <<0, 0>>, exact |-> FALSE]

Max(a, b) == IF a >= b THEN a ELSE b

Last(s) == s[Len(s)]

----------------------------------------------------------------------------
(* ResizeForkGrab::motion, resize.rs 114-191 *)

\* f64::round of d/SubPixel pixels: to the nearest integer, halves away from zero
Round(d) ==
    IF d >= 0 THEN (2 * d + SubPixel) \div (2 * SubPixel)
    ELSE -((2 * (-d) + SubPixel) \div (2 * SubPixel))

\* slip: the components of the two orientations exchanged
ProjectDeltaOtherAxis(orientation, loc, last_loc) ==
    IF orientation = Vertical THEN Round(loc[2] - last_loc[2])
    ELSE Round(loc[1] - last_loc[1])

\* slip: the delta is taken from where the drag began, not from last_loc
ProjectDeltaFromStart(orientation, loc, last_loc) ==
    IF orientation = Vertical THEN Round(loc[1]) ELSE Round(loc[2])

\* let delta = event.location - self.last_loc; then the component of the grab's
\* orientation, .round() as i32
ProjectDelta(orientation, loc, last_loc) ==
    IF orientation = Vertical THEN Round(loc[1] - last_loc[1])
    ELSE Round(loc[2] - last_loc[2])

\* slip: one literal for both orientations
CombinedMinOneLiteral(orientation) == 480

\* the literals of the combined guard, chosen by the orientation of the Group
CombinedMin(orientation) == IF orientation = Vertical THEN 720 ELSE 480

\* the literals of the two .max() calls, chosen by the orientation of the grab
PaneMin(orientation) == IF orientation = Vertical THEN 360 ELSE 240

\* slip: only first_elem is looked at
StillAliveFirstOnly(node, left_up_idx) == Len(node.children) >= left_up_idx + 1

\* slip: the check is left out
StillAliveAlways(node, left_up_idx) == TRUE

\* slip: one element too many is asked for
StillAliveOneMore(node, left_up_idx) == Len(node.children) >= left_up_idx + 3

\* "check that we are still alive": children_ids(node).skip(left_up_idx) yields
\* a first and a second element
StillAlive(node, left_up_idx) == Len(node.children) >= left_up_idx + 2

\* the early return of the combined guard
BelowCombinedMin(sizes, left_up_idx, orientation) ==
    sizes[left_up_idx + 1] + sizes[left_up_idx + 2] < CombinedMin(orientation)

\* slip: the right sibling is given the delta instead of the left sibling's change
RedistributeSameSign(sizes, left_up_idx, delta, orientation) ==
    LET i == left_up_idx + 1
        old_size == sizes[i]
        first == Max(old_size + delta, PaneMin(orientation))
        next_size == sizes[i + 1] + delta
        second == Max(next_size, PaneMin(orientation))
        next_diff == next_size - second
    IN  [sizes EXCEPT ![i] = first + next_diff, ![i + 1] = second]

\* slip: the left sibling is not clamped before its change is handed on
RedistributeNoLeftFloor(sizes, left_up_idx, delta, orientation) ==
    LET i == left_up_idx + 1
        old_size == sizes[i]
        first == old_size + delta
        diff == old_size - first
        next_size == sizes[i + 1] + diff
        second == Max(next_size, PaneMin(orientation))
        next_diff == next_size - second
    IN  [sizes EXCEPT ![i] = first + next_diff, ![i + 1] = second]

\* slip: what the right sibling could not give is not handed back to the left one
RedistributeNoPushBack(sizes, left_up_idx, delta, orientation) ==
    LET i == left_up_idx + 1
        old_size == sizes[i]
        first == Max(old_size + delta, PaneMin(orientation))
        diff == old_size - first
        next_size == sizes[i + 1] + diff
        second == Max(next_size, PaneMin(orientation))
    IN  [sizes EXCEPT ![i] = first, ![i + 1] = second]

\* the redistribution of the two sizes at the boundary
Redistribute(sizes, left_up_idx, delta, orientation) ==
    LET i == left_up_idx + 1
        old_size == sizes[i]
        first == Max(old_size + delta, PaneMin(orientation))
        diff == old_size - first
        next_size == sizes[i + 1] + diff
        second == Max(next_size, PaneMin(orientation))
        next_diff == next_size - second
    IN  [sizes EXCEPT ![i] = first + next_diff, ![i + 1] = second]

\* TilingLayout::update_positions: one blocker for each surface whose extent
\* differs from the one it was configured with, in child order
update_positions(configured, tree) ==
    LET ch == tree["g"].children
        changed == SelectSeq([k \in 1..Len(ch) |-> k],
                             LAMBDA k: k > Len(configured["g"].sizes)
                                       \/ configured["g"].sizes[k] # tree["g"].sizes[k])
    IN  [j \in 1..Len(changed) |-> ch[changed[j]]]

\* What one call of ResizeForkGrab::motion reports: the grab afterwards (NoGrab
\* once unset_grab ran), the queue of the output, the pending blockers, how often
\* unset_grab ran, the panic reached if any, and the projected delta.
Kept(outcome, self, qs, pb, delta) ==
    [outcome |-> outcome, grab |-> self, queues |-> qs, pending |-> pb,
     unsets |-> 0, panic |-> "none", delta |-> delta]

Unset(outcome, self, qs, pb, delta) ==
    [Kept(outcome, self, qs, pb, delta) EXCEPT !.grab = NoGrab, !.unsets = 1]

Panic(what, self, qs, pb, delta) ==
    [Kept("panic", self, qs, pb, delta) EXCEPT !.panic = what]

\* slip: the blockers of the solver take the place of the ones already pending
motion_queueReplaces(self, qs, pb, loc) ==
    LET delta == ProjectDelta(self.orientation, loc, self.last_loc)
        i == self.left_up_idx
    IN
    IF Len(qs.trees) = 0 THEN Panic("unwrap_back", self, qs, pb, delta)
    ELSE
    LET tree == Last(qs.trees)
        node == tree[self.node]
    IN
    IF node.kind = "None" THEN Unset("unset_node", self, qs, pb, delta)
    ELSE IF ~StillAlive(node, i) THEN Unset("unset_sibling", self, qs, pb, delta)
    ELSE IF node.kind # "Group" THEN Panic("unreachable", self, qs, pb, delta)
    ELSE IF Len(node.sizes) < i + 2 THEN Panic("index", self, qs, pb, delta)
    ELSE IF BelowCombinedMin(node.sizes, i, node.orientation)
        THEN Kept("veto", self, qs, pb, delta)
    ELSE
    LET sizes == Redistribute(node.sizes, i, delta, self.orientation)
        new_tree == [tree EXCEPT ![self.node].sizes = sizes]
        blocker == update_positions(tree, new_tree)
    IN  Kept("resized", [self EXCEPT !.last_loc = loc],
             [qs EXCEPT !.trees[Len(qs.trees)] = new_tree], blocker, delta)

\* slip: the sizes are written to the oldest tree (front) of the queue
motion_queueFront(self, qs, pb, loc) ==
    LET delta == ProjectDelta(self.orientation, loc, self.last_loc)
        i == self.left_up_idx
    IN
    IF Len(qs.trees) = 0 THEN Panic("unwrap_back", self, qs, pb, delta)
    ELSE
    LET tree == Last(qs.trees)
        node == tree[self.node]
    IN
    IF node.kind = "None" THEN Unset("unset_node", self, qs, pb, delta)
    ELSE IF ~StillAlive(node, i) THEN Unset("unset_sibling", self, qs, pb, delta)
    ELSE IF node.kind # "Group" THEN Panic("unreachable", self, qs, pb, delta)
    ELSE IF Len(node.sizes) < i + 2 THEN Panic("index", self, qs, pb, delta)
    ELSE IF BelowCombinedMin(node.sizes, i, node.orientation)
        THEN Kept("veto", self, qs, pb, delta)
    ELSE
    LET sizes == Redistribute(node.sizes, i, delta, self.orientation)
        new_tree == [tree EXCEPT ![self.node].sizes = sizes]
        blocker == update_positions(tree, new_tree)
    IN  Kept("resized", [self EXCEPT !.last_loc = loc],
             [qs EXCEPT !.trees[1] = new_tree], pb \o blocker, delta)

\* slip: last_loc is written before the combined guard returns
motion_queueVetoMoves(self, qs, pb, loc) ==
    LET delta == ProjectDelta(self.orientation, loc, self.last_loc)
        i == self.left_up_idx
    IN
    IF Len(qs.trees) = 0 THEN Panic("unwrap_back", self, qs, pb, delta)
    ELSE
    LET tree == Last(qs.trees)
        node == tree[self.node]
    IN
    IF node.kind = "None" THEN Unset("unset_node", self, qs, pb, delta)
    ELSE IF ~StillAlive(node, i) THEN Unset("unset_sibling", self, qs, pb, delta)
    ELSE IF node.kind # "Group" THEN Panic("unreachable", self, qs, pb, delta)
    ELSE IF Len(node.sizes) < i + 2 THEN Panic("index", self, qs, pb, delta)
    ELSE IF BelowCombinedMin(node.sizes, i, node.orientation)
        THEN Kept("veto", [self EXCEPT !.last_loc = loc], qs, pb, delta)
    ELSE
    LET sizes == Redistribute(node.sizes, i, delta, self.orientation)
        new_tree == [tree EXCEPT ![self.node].sizes = sizes]
        blocker == update_positions(tree, new_tree)
    IN  Kept("resized", [self EXCEPT !.last_loc = loc],
             [qs EXCEPT !.trees[Len(qs.trees)] = new_tree], pb \o blocker, delta)

\* the body of `if let Some(queue) = tiling_layer.queues.get_mut(&output)`
motion_queue(self, qs, pb, loc) ==
    LET delta == ProjectDelta(self.orientation, loc, self.last_loc)
        i == self.left_up_idx
    IN
    IF Len(qs.trees) = 0 THEN Panic("unwrap_back", self, qs, pb, delta)
    ELSE
    LET tree == Last(qs.trees)
        node == tree[self.node]
    IN
    IF node.kind = "None" THEN Unset("unset_node", self, qs, pb, delta)
    ELSE IF ~StillAlive(node, i) THEN Unset("unset_sibling", self, qs, pb, delta)
    ELSE IF node.kind # "Group" THEN Panic("unreachable", self, qs, pb, delta)
    ELSE IF Len(node.sizes) < i + 2 THEN Panic("index", self, qs, pb, delta)
    ELSE IF BelowCombinedMin(node.sizes, i, node.orientation)
        THEN Kept("veto", self, qs, pb, delta)
    ELSE
    LET sizes == Redistribute(node.sizes, i, delta, self.orientation)
        new_tree == [tree EXCEPT ![self.node].sizes = sizes]
        blocker == update_positions(tree, new_tree)
    IN  Kept("resized", [self EXCEPT !.last_loc = loc],
             [qs EXCEPT !.trees[Len(qs.trees)] = new_tree], pb \o blocker, delta)

\* slip: an else branch that unsets the grab on both `if let`
motionUnsetsStale(self, alive, qs, pb, loc) ==
    LET delta == ProjectDelta(self.orientation, loc, self.last_loc) IN
    IF ~alive THEN Unset("no_output", self, qs, pb, delta)
    ELSE IF ~qs.has THEN Unset("no_queue", self, qs, pb, delta)
    ELSE motion_queue(self, qs, pb, loc)

\* slip: the queue is looked up without upgrading the output
motionWithoutUpgrade(self, alive, qs, pb, loc) ==
    LET delta == ProjectDelta(self.orientation, loc, self.last_loc) IN
    IF ~qs.has THEN Kept("no_queue", self, qs, pb, delta)
    ELSE motion_queue(self, qs, pb, loc)

\* ResizeForkGrab::motion: neither `if let` has an else branch
motion(self, alive, qs, pb, loc) ==
    LET delta == ProjectDelta(self.orientation, loc, self.last_loc) IN
    IF ~alive THEN Kept("no_output", self, qs, pb, delta)
    ELSE IF ~qs.has THEN Kept("no_queue", self, qs, pb, delta)
    ELSE motion_queue(self, qs, pb, loc)

----------------------------------------------------------------------------
(* The history variable *)

Event(kind) == [kind |-> kind, outcome |-> "", unsets |-> 0, delta |-> 0, panic |-> "none"]

Running == ev.panic = "none"

----------------------------------------------------------------------------
(* SessionLockHandler for State, session_lock.rs 19-37 *)

Outputs == {"out1", "out2", "out3"}
NoOutput == "none"

\* the wl_output resources a lock client can name; the last one is the resource
\* of an output that is gone
WlOutputs == {"wl1", "wl2", "wl3", "wl4"}

\* Output::from_resource
from_resource(wl_output) ==
    CASE wl_output = "wl1" -> "out1"
      [] wl_output = "wl2" -> "out2"
      [] wl_output = "wl3" -> "out3"
      [] OTHER -> NoOutput

LockSurfaces == 1..MaxSurfaces
NoSurface == 0

\* HashMap::new()
EmptySurfaces == [o \in Outputs |-> NoSurface]

\* Option<SessionLock>: None, or Some(SessionLock { surfaces })
None == [some |-> FALSE, surfaces |-> EmptySurfaces]
Some(surfaces) == [some |-> TRUE, surfaces |-> surfaces]

\* slip: a lock call on a locked session keeps the session lock there is
lockKeepsRegistry(sl) == IF sl.some THEN sl ELSE Some(EmptySurfaces)

\* fn lock: locker.lock(), then session_lock = Some(SessionLock { surfaces: HashMap::new() })
lock(sl) == Some(EmptySurfaces)

\* fn unlock: session_lock = None
unlock(sl) == None

\* fn new_surface: with a session lock and an output for wl_output,
\* session_lock.surfaces.insert(output, lock_surface)
new_surface(sl, lock_surface, wl_output) ==
    IF sl.some
    THEN IF from_resource(wl_output) # NoOutput
         THEN Some([sl.surfaces EXCEPT ![from_resource(wl_output)] = lock_surface])
         ELSE sl
    ELSE sl

\* no lock call yet
NoLog == [locked |-> FALSE, given |-> EmptySurfaces]

----------------------------------------------------------------------------
(* Initial states *)

\* the child extents the layout module hands over when the drag starts
InitGroups == { <<Vertical, <<500, 500>> >>, <<Horizontal, <<400, 400, 400>> >> }

Windows == <<"w1", "w2", "w3">>

InitTree(o, sz) ==
    [n \in NodeIds |->
        IF n = "g" THEN Group(o, SubSeq(Windows, 1, Len(sz)), sz)
        ELSE IF \E k \in 1..Len(sz) : Windows[k] = n THEN Mapped
        ELSE NoNode]

\* the locations pointer events carry
Locs == { Px(0, 0), Px(50, -10) }

Init ==
    /\ output_alive = TRUE
    /\ \E g \in InitGroups :
          queues = [has |-> TRUE, trees |-> <<InitTree(g[1], g[2])>>]
    /\ pending_blockers = <<>>
    /\ pressed = {}
    /\ location = Px(0, 0)
    /\ grab = NoGrab
    /\ idle = <<>>
    /\ drags = 0
    /\ armed_siblings = <<"", "">>
    /\ origin = NoOrigin
    /\ session_lock = None
    /\ lock_log = NoLog
    /\ ev = Event("init")

----------------------------------------------------------------------------
(* Pointer events *)

\* PointerHandle::button keeps the pressed buttons before the grab or the focus
\* sees the event
Press(set, button, state) ==
    IF state = "Pressed" THEN set \cup {button} ELSE set \ {button}

ButtonEvents == { be \in Buttons \X {"Pressed", "Released"} :
                    (be[2] = "Pressed") = (be[1] \notin pressed) }

\* The ResizeForkTarget of every boundary of the Group in the most recent tree
Targets ==
    IF queues.has /\ Len(queues.trees) > 0 /\ Last(queues.trees)["g"].kind = "Group"
    THEN LET g == Last(queues.trees)["g"] IN
         { [node |-> "g", left_up_idx |-> i, orientation |-> g.orientation] :
             i \in 0..(Len(g.children) - 2) }
    ELSE {}

\* slip: the target counts as alive while the tiling layer has a queue for the output
aliveWhileQueued(target) == queues.has

\* IsAlive for ResizeForkTarget
alive(target) == output_alive

\* slip: every button press arms the grab
TargetButtonIdleAnyButton(target, button, state) ==
    IF state = "Pressed"
    THEN << [node |-> target.node, left_up_idx |-> target.left_up_idx,
             orientation |-> target.orientation, button |-> button] >>
    ELSE << >>

\* ResizeForkTarget::button: the closure it hands to insert_idle, if any
TargetButtonIdle(target, button, state) ==
    IF button = BTN_LEFT /\ state = "Pressed"
    THEN << [node |-> target.node, left_up_idx |-> target.left_up_idx,
             orientation |-> target.orientation, button |-> button] >>
    ELSE << >>

\* a button event while the pointer focus is a ResizeForkTarget and no grab is set
TargetButton ==
    /\ Running
    /\ ~grab.active
    /\ \E target \in Targets, be \in ButtonEvents :
          /\ alive(target)
          /\ drags + Len(TargetButtonIdle(target, be[1], be[2])) <= MaxDrags
          /\ drags' = drags + Len(TargetButtonIdle(target, be[1], be[2]))
          /\ pressed' = Press(pressed, be[1], be[2])
          /\ idle' = idle \o TargetButtonIdle(target, be[1], be[2])
          /\ ev' = [Event("target_button") EXCEPT
                      !.outcome = IF idle' # idle THEN "armed" ELSE "ignored"]
    /\ UNCHANGED <<output_alive, queues, pending_blockers, location, grab, armed_siblings,
                   origin, session_lock, lock_log>>

\* the children at indices left_up_idx and left_up_idx + 1 of the node in the most
\* recent tree ("" where there is none)
SiblingsAt(qs, node, left_up_idx) ==
    LET ch == IF qs.has /\ Len(qs.trees) > 0 THEN Last(qs.trees)[node].children ELSE << >>
    IN  << IF Len(ch) >= left_up_idx + 1 THEN ch[left_up_idx + 1] ELSE "",
           IF Len(ch) >= left_up_idx + 2 THEN ch[left_up_idx + 2] ELSE "" >>

\* the size at index idx of the node in the most recent tree (0 where there is none)
SizeAt(qs, node, idx) ==
    LET sz == IF qs.has /\ Len(qs.trees) > 0 THEN Last(qs.trees)[node].sizes ELSE << >>
    IN  IF Len(sz) >= idx + 1 THEN sz[idx + 1] ELSE 0

\* the closure of ResizeForkTarget::button, run by the event loop when idle:
\* pointer.set_grab(ResizeForkGrab { .. }) with last_loc the current location
RunIdle ==
    /\ Running
    /\ idle # << >>
    /\ grab' = [active |-> TRUE, last_loc |-> location, node |-> Head(idle).node,
                left_up_idx |-> Head(idle).left_up_idx,
                orientation |-> Head(idle).orientation, button |-> Head(idle).button]
    /\ idle' = Tail(idle)
    /\ armed_siblings' = SiblingsAt(queues, Head(idle).node, Head(idle).left_up_idx)
    /\ origin' = [size |-> SizeAt(queues, Head(idle).node, Head(idle).left_up_idx),
                  loc |-> location, exact |-> WholePx(location)]
    /\ ev' = Event("set_grab")
    /\ UNCHANGED <<output_alive, queues, pending_blockers, pressed, location, drags,
                   session_lock, lock_log>>

\* slip: the grab ends when the button that started it is released
buttonStartReleased(self, now_pressed) ==
    IF self.button \notin now_pressed THEN [grab |-> NoGrab, unsets |-> 1]
    ELSE [grab |-> self, unsets |-> 0]

\* ResizeForkGrab::button: handle.button, then unset_grab when nothing is pressed
button(self, now_pressed) ==
    IF now_pressed = {} THEN [grab |-> NoGrab, unsets |-> 1]
    ELSE [grab |-> self, unsets |-> 0]

GrabButton ==
    /\ Running
    /\ grab.active
    /\ \E be \in ButtonEvents :
          /\ pressed' = Press(pressed, be[1], be[2])
          /\ grab' = button(grab, pressed').grab
          /\ origin' = IF grab'.active THEN origin ELSE NoOrigin
          /\ ev' = [Event("grab_button") EXCEPT
                      !.unsets = button(grab, pressed').unsets,
                      !.outcome = IF button(grab, pressed').unsets > 0
                                  THEN "unset" ELSE "kept"]
    /\ UNCHANGED <<output_alive, queues, pending_blockers, location, idle, drags,
                   armed_siblings, session_lock, lock_log>>

\* the motion event was handled at a whole-pixel location and gave the left
\* sibling the whole delta, which the right sibling gave up: nothing was clamped,
\* vetoed or skipped
Tracked(self, qs, r, loc) ==
    /\ r.grab.active
    /\ r.outcome = "resized"
    /\ WholePx(loc)
    /\ SizeAt(r.queues, self.node, self.left_up_idx)
         = SizeAt(qs, self.node, self.left_up_idx) + r.delta
    /\ SizeAt(r.queues, self.node, self.left_up_idx + 1)
         = SizeAt(qs, self.node, self.left_up_idx + 1) - r.delta

\* a motion event while the ResizeForkGrab is set
GrabMotion(locs) ==
    /\ Running
    /\ grab.active
    /\ Len(pending_blockers) < MaxBlockers
    /\ \E loc \in locs :
          LET r == motion(grab, output_alive, queues, pending_blockers, loc) IN
          /\ location' = loc
          /\ grab' = r.grab
          /\ queues' = r.queues
          /\ pending_blockers' = r.pending
          /\ origin' = IF origin.exact /\ Tracked(grab, queues, r, loc)
                       THEN origin ELSE NoOrigin
          /\ ev' = [kind |-> "grab_motion", outcome |-> r.outcome, unsets |-> r.unsets,
                    delta |-> r.delta, panic |-> r.panic]
    /\ UNCHANGED <<output_alive, pressed, idle, drags, armed_siblings, session_lock, lock_log>>

\* a motion event while no grab is set: ResizeForkTarget::motion does nothing
TargetMotion ==
    /\ Running
    /\ ~grab.active
    /\ \E loc \in Locs :
          /\ location' = loc
          /\ ev' = Event("target_motion")
    /\ UNCHANGED <<output_alive, queues, pending_blockers, pressed, grab, idle, drags,
                   armed_siblings, origin, session_lock, lock_log>>

\* a relative motion event while no grab is set: ResizeForkTarget::relative_motion
\* has an empty body
TargetRelativeMotion ==
    /\ Running
    /\ ~grab.active
    /\ Targets # {}
    /\ ev' = Event("target_relative_motion")
    /\ UNCHANGED <<output_alive, queues, pending_blockers, pressed, location, grab, idle,
                   drags, armed_siblings, origin, session_lock, lock_log>>

\* an axis event while no grab is set: ResizeForkTarget::axis has an empty body
TargetAxis ==
    /\ Running
    /\ ~grab.active
    /\ Targets # {}
    /\ ev' = Event("target_axis")
    /\ UNCHANGED <<output_alive, queues, pending_blockers, pressed, location, grab, idle,
                   drags, armed_siblings, origin, session_lock, lock_log>>

\* slip: a relative motion event ends the grab
relative_motionUnsets(self) == [grab |-> NoGrab, unsets |-> 1]

\* ResizeForkGrab::relative_motion: handle.relative_motion(state, None, event)
\* and nothing else
relative_motion(self) == [grab |-> self, unsets |-> 0]

\* ResizeForkGrab::axis: handle.axis(data, details) and nothing else
axis(self) == [grab |-> self, unsets |-> 0]

\* a relative motion event while the ResizeForkGrab is set
GrabRelativeMotion ==
    /\ Running
    /\ grab.active
    /\ grab' = relative_motion(grab).grab
    /\ ev' = [Event("grab_relative_motion") EXCEPT !.unsets = relative_motion(grab).unsets]
    /\ UNCHANGED <<output_alive, queues, pending_blockers, pressed, location, idle, drags,
                   armed_siblings, origin, session_lock, lock_log>>

\* an axis event while the ResizeForkGrab is set
GrabAxis ==
    /\ Running
    /\ grab.active
    /\ grab' = axis(grab).grab
    /\ ev' = [Event("grab_axis") EXCEPT !.unsets = axis(grab).unsets]
    /\ UNCHANGED <<output_alive, queues, pending_blockers, pressed, location, idle, drags,
                   armed_siblings, origin, session_lock, lock_log>>

----------------------------------------------------------------------------
(* The other actors: window and output lifecycle, the render pipeline *)

RemoveAt(s, k) == SubSeq(s, 1, k - 1) \o SubSeq(s, k + 1, Len(s))

\* a window of the Group is closed: its node leaves the tree, its extent goes
\* to the neighbour that takes its place (or to the one before it)
close_window(tree, k) ==
    LET g == tree["g"]
        rest == RemoveAt(g.sizes, k)
        heir == IF k <= Len(rest) THEN k ELSE k - 1
        sz == IF heir >= 1 THEN [rest EXCEPT ![heir] = @ + g.sizes[k]] ELSE rest
    IN  [tree EXCEPT ![g.children[k]] = NoNode,
                     !["g"] = Group(g.orientation, RemoveAt(g.children, k), sz)]

\* Another actor changes the layout: the changed copy of the most recent tree is
\* appended to the queue and becomes the most recent tree.
CloseWindow ==
    /\ Running
    /\ queues.has /\ Len(queues.trees) > 0 /\ Len(queues.trees) < MaxTrees
    /\ Last(queues.trees)["g"].kind = "Group"
    /\ \E k \in 1..Len(Last(queues.trees)["g"].children) :
          queues' = [queues EXCEPT !.trees = Append(@, close_window(Last(@), k))]
    /\ ev' = Event("env")
    /\ UNCHANGED <<output_alive, pending_blockers, pressed, location, grab, idle, drags,
                   armed_siblings, origin, session_lock, lock_log>>

\* the Group itself leaves the tree, with its children
RemoveNode ==
    /\ Running
    /\ queues.has /\ Len(queues.trees) > 0 /\ Len(queues.trees) < MaxTrees
    /\ Last(queues.trees)["g"].kind = "Group"
    /\ queues' = [queues EXCEPT !.trees = Append(@, [n \in NodeIds |-> NoNode])]
    /\ ev' = Event("env")
    /\ UNCHANGED <<output_alive, pending_blockers, pressed, location, grab, idle, drags,
                   armed_siblings, origin, session_lock, lock_log>>

\* a transition ends: the oldest tree is dropped, the most recent one stays
PopTree ==
    /\ Running
    /\ queues.has /\ Len(queues.trees) > 1
    /\ queues' = [queues EXCEPT !.trees = Tail(@)]
    /\ ev' = Event("env")
    /\ UNCHANGED <<output_alive, pending_blockers, pressed, location, grab, idle, drags,
                   armed_siblings, origin, session_lock, lock_log>>

\* the output is unmapped from the tiling layer: its queue is dropped
RemoveQueue ==
    /\ Running
    /\ queues.has
    /\ queues' = [has |-> FALSE, trees |-> << >>]
    /\ ev' = Event("env")
    /\ UNCHANGED <<output_alive, pending_blockers, pressed, location, grab, idle, drags,
                   armed_siblings, origin, session_lock, lock_log>>

\* the last strong reference to the output is dropped
OutputRemoved ==
    /\ Running
    /\ output_alive
    /\ output_alive' = FALSE
    /\ ev' = Event("env")
    /\ UNCHANGED <<queues, pending_blockers, pressed, location, grab, idle, drags,
                   armed_siblings, origin, session_lock, lock_log>>

\* the render pipeline takes the pending blockers
TakeBlockers ==
    /\ Running
    /\ pending_blockers # << >>
    /\ pending_blockers' = << >>
    /\ ev' = Event("env")
    /\ UNCHANGED <<output_alive, queues, pressed, location, grab, idle, drags, armed_siblings,
                   origin, session_lock, lock_log>>

Next ==
    \/ TargetButton
    \/ RunIdle
    \/ GrabButton
    \/ GrabMotion(Locs)
    \/ TargetMotion
    \/ CloseWindow
    \/ RemoveNode
    \/ PopTree
    \/ RemoveQueue
    \/ OutputRemoved
    \/ TakeBlockers

Spec == Init /\ [][Next]_vars

----------------------------------------------------------------------------
(* The drag lifecycle with every kind of pointer event the target and the grab *)
(* receive.                                                                    *)

NextInput ==
    \/ Next
    \/ TargetRelativeMotion
    \/ TargetAxis
    \/ GrabRelativeMotion
    \/ GrabAxis

SpecInput == Init /\ [][NextInput]_vars

----------------------------------------------------------------------------
(* The resize arithmetic on its own: a drag that is already armed, on groups  *)
(* of many extents, with pointer events over a wider range.                  *)

ResizeSizes ==
    { <<500, 500>>, <<400, 400>>, <<360, 360>>, <<300, 300>>, <<400, 320>>,
      <<320, 400>>, <<300, 500>>, <<250, 250>>, <<240, 240>>, <<200, 600>>,
      <<359, 360>>, <<239, 240>>, <<400, 400, 400>>, <<250, 300, 450>> }

ResizeLocs ==
    { Px(0, 0), Px(50, 0), Px(200, 0), Px(-200, 0), Px(0, -10), Px(0, 200),
      <<1, 0>>, Px(1, 0) }

InitResize ==
    /\ output_alive = TRUE
    /\ \E o \in Orientations, sz \in ResizeSizes :
          /\ queues = [has |-> TRUE, trees |-> <<InitTree(o, sz)>>]
          /\ \E i \in 0..(Len(sz) - 2) :
                grab = [active |-> TRUE, last_loc |-> Px(0, 0), node |-> "g",
                        left_up_idx |-> i, orientation |-> o, button |-> BTN_LEFT]
    /\ pending_blockers = <<>>
    /\ pressed = {BTN_LEFT}
    /\ location = Px(0, 0)
    /\ idle = <<>>
    /\ drags = 1
    /\ armed_siblings = SiblingsAt(queues, grab.node, grab.left_up_idx)
    /\ origin = [size |-> SizeAt(queues, grab.node, grab.left_up_idx),
                 loc |-> location, exact |-> WholePx(location)]
    /\ session_lock = None
    /\ lock_log = NoLog
    /\ ev = Event("set_grab")

NextResize ==
    \/ GrabMotion(ResizeLocs)
    \/ TakeBlockers

SpecResize == InitResize /\ [][NextResize]_vars

----------------------------------------------------------------------------
(* A drag that is already armed, on groups of many extents, with the other    *)
(* actors at work while it lasts.                                             *)

NextDrag ==
    \/ GrabMotion(Locs)
    \/ CloseWindow
    \/ RemoveNode
    \/ RemoveQueue
    \/ OutputRemoved
    \/ TakeBlockers

SpecDrag == InitResize /\ [][NextDrag]_vars

----------------------------------------------------------------------------
(* The session lock handler on its own: any sequence of lock, unlock and      *)
(* new_surface calls.                                                         *)

LockCall ==
    /\ session_lock' = lock(session_lock)
    /\ lock_log' = [locked |-> TRUE, given |-> EmptySurfaces]
    /\ ev' = Event("lock")
    /\ UNCHANGED <<output_alive, queues, pending_blockers, pressed, location, grab, idle, drags,
                   armed_siblings, origin>>

UnlockCall ==
    /\ session_lock' = unlock(session_lock)
    /\ lock_log' = [lock_log EXCEPT !.locked = FALSE]
    /\ ev' = Event("unlock")
    /\ UNCHANGED <<output_alive, queues, pending_blockers, pressed, location, grab, idle, drags,
                   armed_siblings, origin>>

NewSurfaceCall ==
    /\ \E lock_surface \in LockSurfaces, wl_output \in WlOutputs :
          /\ session_lock' = new_surface(session_lock, lock_surface, wl_output)
          /\ lock_log' = IF from_resource(wl_output) # NoOutput
                         THEN [lock_log EXCEPT !.given[from_resource(wl_output)] = lock_surface]
                         ELSE lock_log
          /\ ev' = [Event("new_surface") EXCEPT
                      !.outcome = IF session_lock' # session_lock THEN "registered" ELSE "ignored"]
    /\ UNCHANGED <<output_alive, queues, pending_blockers, pressed, location, grab, idle, drags,
                   armed_siblings, origin>>

NextLock ==
    \/ LockCall
    \/ UnlockCall
    \/ NewSurfaceCall

SpecLock == Init /\ [][NextLock]_vars

----------------------------------------------------------------------------
(* What the claims speak about *)

\* the node of the grab in the most recent tree of the queue qs
NodeOf(qs, g) ==
    IF qs.has /\ Len(qs.trees) > 0 THEN Last(qs.trees)[g.node] ELSE NoNode

\* the handler reaches the two sizes at the boundary of the grab g
PairReached(resolves, qs, g) ==
    /\ resolves
    /\ NodeOf(qs, g).kind = "Group"
    /\ Len(NodeOf(qs, g).children) >= g.left_up_idx + 2
    /\ Len(NodeOf(qs, g).sizes) >= g.left_up_idx + 2

SizeLeft(qs, g) == NodeOf(qs, g).sizes[g.left_up_idx + 1]
SizeRight(qs, g) == NodeOf(qs, g).sizes[g.left_up_idx + 2]

\* this step is a motion event delivered to the grab
GrabMotionStep == grab.active /\ ev'.kind = "grab_motion"

\* the pointer did not move by half a pixel or more along the axis of orientation o
NoAxisMove(o, from, to) ==
    LET d == IF o = Vertical THEN to[1] - from[1] ELSE to[2] - from[2]
    IN  2 * d < SubPixel /\ 2 * d > -SubPixel

\* C1. Conservation: a grab motion event whose delta hits neither per-pane floor
\* (a + delta >= min and b - delta >= min) leaves the sum of the two sizes at the
\* boundary exactly as it was.
C1_Conservation ==
    [][ ( /\ GrabMotionStep
          /\ PairReached(output_alive, queues, grab)
          /\ SizeLeft(queues, grab) + ev'.delta >= PaneMin(NodeOf(queues, grab).orientation)
          /\ SizeRight(queues, grab) - ev'.delta >= PaneMin(NodeOf(queues, grab).orientation) )
        => ( /\ PairReached(output_alive', queues', grab)
             /\ SizeLeft(queues', grab) + SizeRight(queues', grab)
                  = SizeLeft(queues, grab) + SizeRight(queues, grab)
             /\ SizeLeft(queues', grab) = SizeLeft(queues, grab) + ev'.delta ) ]_vars

\* the drag of [500, 500] by +50 has given [550, 450]
C1_Witness ==
    /\ ev.kind = "grab_motion" /\ ev.outcome = "resized" /\ ev.delta = 50
    /\ grab.active /\ grab.orientation = Vertical
    /\ NodeOf(queues, grab).sizes = <<550, 450>>

\* C2. Floor enforcement: after a grab motion event that changes sizes, neither
\* size at the boundary is below the per-pane minimum of the orientation, also
\* after the leftover of the right sibling was pushed back onto the left one.
C2_FloorEnforcement ==
    [][ ( /\ GrabMotionStep
          /\ PairReached(output_alive, queues, grab)
          /\ NodeOf(queues', grab).sizes # NodeOf(queues, grab).sizes )
        => ( /\ SizeLeft(queues', grab) >= PaneMin(NodeOf(queues, grab).orientation)
             /\ SizeRight(queues', grab) >= PaneMin(NodeOf(queues, grab).orientation)
             /\ SizeLeft(queues', grab) >= PaneMin(grab.orientation)
             /\ SizeRight(queues', grab) >= PaneMin(grab.orientation) ) ]_vars

\* [400, 400] dragged by +200: the right sibling clamped at 360 and the leftover
\* 40 went back to the left sibling
C2_Witness ==
    /\ ev.kind = "grab_motion" /\ ev.outcome = "resized" /\ ev.delta = 200
    /\ grab.active /\ grab.orientation = Vertical
    /\ NodeOf(queues, grab).sizes = <<440, 360>>

\* C3 as claimed. Combined-floor veto: a pair whose sum is less than or equal to
\* the combined minimum of the group is never changed by a grab motion event.
C3_VetoAtOrBelow ==
    [][ ( /\ GrabMotionStep
          /\ PairReached(output_alive, queues, grab)
          /\ SizeLeft(queues, grab) + SizeRight(queues, grab)
               <= CombinedMin(NodeOf(queues, grab).orientation) )
        => NodeOf(queues', grab).sizes = NodeOf(queues, grab).sizes ]_vars

\* C3 as amended. A pair whose sum is strictly less than the combined minimum of
\* the group is never changed by a grab motion event, whatever the delta and the
\* split; the event changes nothing else either.
C3_VetoBelow ==
    [][ ( /\ GrabMotionStep
          /\ PairReached(output_alive, queues, grab)
          /\ queues.has
          /\ SizeLeft(queues, grab) + SizeRight(queues, grab)
               < (IF NodeOf(queues, grab).orientation = Vertical THEN 720 ELSE 480) )
        => ( /\ queues' = queues
             /\ grab' = grab
             /\ pending_blockers' = pending_blockers ) ]_vars

\* a pair of sum 500 in a Vertical group was dragged by a non-zero delta and vetoed
C3_Witness ==
    /\ ev.kind = "grab_motion" /\ ev.outcome = "veto" /\ ev.delta # 0
    /\ grab.active /\ grab.orientation = Vertical
    /\ NodeOf(queues, grab).sizes = <<250, 250>>

\* C4 as claimed. A grab motion event with zero projected delta never changes
\* sizes and never enqueues a blocker, in every state of the group.
C4_ZeroDeltaNoOp ==
    [][ ( /\ GrabMotionStep
          /\ NoAxisMove(grab.orientation, grab.last_loc, location') )
        => ( /\ queues' = queues
             /\ pending_blockers' = pending_blockers ) ]_vars

\* C4 as amended. A grab motion event with zero projected delta never changes
\* sizes and never enqueues a blocker when both sizes at the boundary are at or
\* above the per-pane floor, or their sum is below the combined minimum, or the
\* handler does not reach the sizes.
C4_ZeroDeltaNoOpAboveFloor ==
    [][ ( /\ GrabMotionStep
          /\ NoAxisMove(grab.orientation, grab.last_loc, location')
          /\ PairReached(output_alive, queues, grab) =>
                \/ /\ SizeLeft(queues, grab) >= PaneMin(grab.orientation)
                   /\ SizeRight(queues, grab) >= PaneMin(grab.orientation)
                \/ SizeLeft(queues, grab) + SizeRight(queues, grab)
                     < CombinedMin(NodeOf(queues, grab).orientation) )
        => ( /\ queues' = queues
             /\ pending_blockers' = pending_blockers ) ]_vars

\* a motion event across the axis only reached the redistribution of [500, 500]
\* with delta zero and left the sizes and the empty blocker collection alone
C4_Witness ==
    /\ ev.kind = "grab_motion" /\ ev.outcome = "resized" /\ ev.delta = 0
    /\ grab.active /\ grab.orientation = Vertical
    /\ grab.last_loc = Px(0, -10)
    /\ NodeOf(queues, grab).sizes = <<500, 500>>
    /\ pending_blockers = << >>

\* C5. Grab termination completeness: a button event delivered to the grab ends
\* it, by exactly one unset_grab, if and only if it leaves no button pressed.
C5_ButtonTermination ==
    [][ (grab.active /\ ev'.kind = "grab_button")
        => IF pressed' = {}
           THEN ~grab'.active /\ ev'.unsets = 1
           ELSE grab' = grab /\ ev'.unsets = 0 ]_vars

\* the release of the last of two held buttons has ended the grab
C5_Witness ==
    /\ ev.kind = "grab_button" /\ ev.outcome = "unset" /\ ev.unsets = 1
    /\ ~grab.active /\ pressed = {}

\* a release that left the other button held has kept the grab
C5_WitnessKept ==
    /\ ev.kind = "grab_button" /\ ev.outcome = "kept"
    /\ grab.active /\ BTN_LEFT \notin pressed /\ pressed # {}

Range(seq) == { seq[k] : k \in 1..Len(seq) }

\* the handler reaches the most recent tree of the queue of the output
TreeReached == output_alive /\ queues.has /\ Len(queues.trees) > 0

\* C6. Liveness re-check: a grab motion event that finds the node gone from the
\* most recent tree, or fewer than left_up_idx + 2 children under it, ends the
\* grab by one unset_grab; it changes no tree and no pending blocker, and it does
\* not get as far as writing last_loc.
C6_LivenessRecheck ==
    [][ ( /\ GrabMotionStep
          /\ TreeReached
          /\ \/ NodeOf(queues, grab).kind = "None"
             \/ Len(NodeOf(queues, grab).children) < grab.left_up_idx + 2 )
        => ( /\ ~grab'.active
             /\ ev'.unsets = 1
             /\ ev'.outcome \in {"unset_node", "unset_sibling"}
             /\ queues' = queues
             /\ pending_blockers' = pending_blockers ) ]_vars

\* the grab at the second boundary of three children was ended by a motion event
\* after a close left two children
C6_Witness ==
    /\ ev.kind = "grab_motion" /\ ev.outcome = "unset_sibling" /\ ev.unsets = 1
    /\ ~grab.active
    /\ Len(NodeOf(queues, grab).children) = 2
    /\ NodeOf(queues, grab).kind = "Group"

\* the right sibling the grab was set on is no longer a child of the node
ArmedSiblingGone ==
    /\ armed_siblings[2] # ""
    /\ armed_siblings[2] \notin Range(NodeOf(queues, grab).children)

\* C7 as claimed. Sibling closed mid-drag: once the right sibling of the boundary
\* is gone, the next grab motion event ends the grab and changes no tree, however
\* many children the group has.
C7_ClosedSiblingEndsGrab ==
    [][ (GrabMotionStep /\ TreeReached /\ ArmedSiblingGone)
        => (~grab'.active /\ queues' = queues) ]_vars

\* C7 as amended. Once the right sibling of the boundary is gone, the next grab
\* motion event ends the grab and changes no tree if the node is gone or has
\* fewer than left_up_idx + 2 children left; if that many children are left, the
\* grab stays and the event is handled against the child now at left_up_idx + 1.
C7_ClosedSiblingByIndex ==
    [][ (GrabMotionStep /\ TreeReached /\ ArmedSiblingGone)
        => IF Len(NodeOf(queues, grab).children) < grab.left_up_idx + 2
           THEN ~grab'.active /\ ev'.unsets = 1 /\ queues' = queues
           ELSE grab'.active /\ ev'.unsets = 0
                /\ ev'.outcome \in {"resized", "veto"} ]_vars

\* the right one of two children was closed and the next motion event ended the grab
C7_Witness ==
    /\ ev.kind = "grab_motion" /\ ev.outcome = "unset_sibling"
    /\ ~grab.active
    /\ armed_siblings = <<"w1", "w2">>
    /\ NodeOf(queues, grab).children = <<"w1">>

\* C8. No fatal error path: whatever the other actors did before it, a grab
\* motion event ends in a skip, a veto, a resize or the end of the grab, and never
\* in one of the panics of the handler.
C8_NoPanic ==
    /\ ev.panic = "none"
    /\ ev.kind = "grab_motion" =>
          ev.outcome \in {"no_output", "no_queue", "unset_node", "unset_sibling",
                          "veto", "resized"}

\* a motion event met a tree from which the node had been removed, in a queue of
\* two trees, and ended the grab
C8_Witness ==
    /\ ev.kind = "grab_motion" /\ ev.outcome = "unset_node" /\ ev.panic = "none"
    /\ queues.has /\ Len(queues.trees) = 2
    /\ ~grab.active

\* C9 as claimed. Stale-output teardown: a grab motion event that cannot resolve
\* the output, or finds no queue for it, unsets the grab.
C9_StaleOutputUnsets ==
    [][ (GrabMotionStep /\ (~output_alive \/ ~queues.has)) => ~grab'.active ]_vars

\* C9 as amended. A grab motion event that cannot resolve the output, or finds
\* no queue for it, does not unset the grab: the grab stays set as it was.
C9_StaleOutputKeepsGrab ==
    [][ (GrabMotionStep /\ (~output_alive \/ ~queues.has))
        => ( /\ grab'.active
             /\ ev'.unsets = 0
             /\ ev'.outcome \in {"no_output", "no_queue"} ) ]_vars

\* the output resolved, its queue was gone, and the grab outlived the motion event
C9_Witness ==
    /\ ev.kind = "grab_motion" /\ ev.outcome = "no_queue"
    /\ output_alive /\ ~queues.has
    /\ grab.active

\* C10. Unresolvable output is a skip: a grab motion event whose output does not
\* resolve changes no tree, no pending blocker and nothing of the grab (last_loc
\* included), and the grab stays set.
C10_UnresolvedOutputSkips ==
    [][ (GrabMotionStep /\ ~output_alive)
        => ( /\ grab' = grab
             /\ queues' = queues
             /\ pending_blockers' = pending_blockers ) ]_vars

\* the pointer moved away from last_loc under a dead output whose queue is still
\* there, and the grab is as it was
C10_Witness ==
    /\ ev.kind = "grab_motion" /\ ev.outcome = "no_output"
    /\ ~output_alive /\ queues.has
    /\ grab.active /\ grab.last_loc # location

\* C11. Solver after every mutation: a grab motion event that changes the sizes
\* appends the blockers update_positions returns for the changed tree to the end
\* of the pending blockers, in the order returned, in the same event; no grab
\* motion event removes or reorders the blockers that were pending before it.
C11_BlockersAppended ==
    [][ GrabMotionStep
        => ( /\ Len(pending_blockers') >= Len(pending_blockers)
             /\ SubSeq(pending_blockers', 1, Len(pending_blockers)) = pending_blockers
             /\ (queues' # queues
                   => pending_blockers' =
                        pending_blockers
                          \o update_positions(Last(queues.trees), Last(queues'.trees))) ) ]_vars

\* two motion events changed the sizes of a group of three: the blockers of the
\* second one stand behind the blockers of the first
C11_Witness ==
    /\ ev.kind = "grab_motion" /\ ev.outcome = "resized"
    /\ Len(pending_blockers) = 4
    /\ pending_blockers = <<"w2", "w3", "w2", "w3">>
    /\ grab.left_up_idx = 1

\* C12. Arming: a button event on a target schedules the installation of a grab
\* exactly when it is a press of the primary button 0x110, and then schedules one
\* task seeded with node, left_up_idx and orientation of that target; the
\* dispatch itself sets no grab, the deferred task does it later, with these
\* fields and with last_loc the pointer location at that time. Every other button
\* event and every motion, relative motion and axis event on a target schedules
\* nothing and changes no tree and no grab.
C12_Arming ==
    [][ /\ ev'.kind = "target_button"
            => ( /\ grab' = grab /\ ~grab'.active
                 /\ queues' = queues
                 /\ pending_blockers' = pending_blockers
                 /\ IF BTN_LEFT \in pressed' \ pressed
                    THEN \E t \in Targets :
                            idle' = Append(idle, [node |-> t.node,
                                                  left_up_idx |-> t.left_up_idx,
                                                  orientation |-> t.orientation,
                                                  button |-> BTN_LEFT])
                    ELSE idle' = idle )
        /\ ev'.kind \in {"target_motion", "target_relative_motion", "target_axis"}
            => ( /\ idle' = idle
                 /\ grab' = grab
                 /\ queues' = queues
                 /\ pending_blockers' = pending_blockers
                 /\ pressed' = pressed )
        /\ ev'.kind = "set_grab"
            => ( /\ idle # << >>
                 /\ idle' = Tail(idle)
                 /\ grab' = [active |-> TRUE, last_loc |-> location,
                             node |-> Head(idle).node,
                             left_up_idx |-> Head(idle).left_up_idx,
                             orientation |-> Head(idle).orientation,
                             button |-> Head(idle).button]
                 /\ queues' = queues ) ]_vars

\* the press of the primary button on the second boundary of a group of three
\* has scheduled the installation, and no grab is set yet
C12_Witness ==
    /\ ev.kind = "target_button" /\ ev.outcome = "armed"
    /\ pressed = {BTN_LEFT}
    /\ ~grab.active
    /\ Len(idle) = 1
    /\ idle[1].left_up_idx = 1 /\ idle[1].orientation = Horizontal

\* C13. Frame of the mutation: a grab motion event changes at most the entries
\* left_up_idx and left_up_idx + 1 of sizes of the Group at the node of the grab
\* in the most recent tree of the queue; the queue keeps its length, every
\* earlier tree, every other node, every other entry of sizes, the length of
\* sizes and the children of the node stay as they were.
C13_Frame ==
    [][ GrabMotionStep
        => ( /\ queues'.has = queues.has
             /\ Len(queues'.trees) = Len(queues.trees)
             /\ \A k \in 1..(Len(queues.trees) - 1) : queues'.trees[k] = queues.trees[k]
             /\ Len(queues.trees) > 0
                  => LET old == Last(queues.trees)
                         new == Last(queues'.trees)
                     IN  /\ \A n \in NodeIds \ {grab.node} : new[n] = old[n]
                         /\ new[grab.node].kind = old[grab.node].kind
                         /\ new[grab.node].children = old[grab.node].children
                         /\ new[grab.node].orientation = old[grab.node].orientation
                         /\ Len(new[grab.node].sizes) = Len(old[grab.node].sizes)
                         /\ \A j \in 1..Len(old[grab.node].sizes) :
                               j \notin {grab.left_up_idx + 1, grab.left_up_idx + 2}
                                 => new[grab.node].sizes[j] = old[grab.node].sizes[j] ) ]_vars

\* the third window of [400, 400, 400] was closed mid-drag; the next motion event
\* changed the pair of the most recent tree and left the earlier tree as it was
C13_Witness ==
    /\ ev.kind = "grab_motion" /\ ev.outcome = "resized" /\ ev.delta = -10
    /\ queues.has /\ Len(queues.trees) = 2
    /\ queues.trees[1]["g"].sizes = <<400, 400, 400>>
    /\ queues.trees[2]["g"].sizes = <<390, 810>>

\* every target there can be on the Group
AllTargets == [node : {"g"}, left_up_idx : {0, 1}, orientation : Orientations]

\* C14. Target liveness: alive() of a target is true exactly when the weak
\* reference to its output resolves, whatever became of the queue and the trees,
\* and once it is false it is false at every later call.
C14_AliveFollowsOutput ==
    [][ \A t \in AllTargets :
           /\ alive(t) <=> output_alive
           /\ ~alive(t) => ~(alive(t))' ]_vars

\* the output is gone while its queue is still there, and pointer events went on
C14_Witness ==
    /\ ~output_alive /\ queues.has
    /\ \A t \in AllTargets : ~alive(t)
    /\ ev.kind = "target_motion"

\* C15. Passive events during a grab: a relative motion or axis event delivered
\* to the active grab changes no sizes and no tree, leaves last_loc and the rest
\* of the grab as they were, adds no blocker and never ends the grab.
C15_PassiveEvents ==
    [][ (grab.active /\ ev'.kind \in {"grab_relative_motion", "grab_axis"})
        => ( /\ grab' = grab
             /\ grab'.active /\ ev'.unsets = 0
             /\ queues' = queues
             /\ pending_blockers' = pending_blockers
             /\ pressed' = pressed
             /\ location' = location ) ]_vars

\* mid-drag, after the pointer moved and the sizes changed, a relative motion
\* event came and the grab is still set
C15_Witness ==
    /\ ev.kind = "grab_relative_motion"
    /\ grab.active /\ grab.last_loc = Px(50, -10)
    /\ pending_blockers # << >>
    /\ NodeOf(queues, grab).sizes = <<550, 450>>

\* the same for an axis event
C15_WitnessAxis ==
    /\ ev.kind = "grab_axis"
    /\ grab.active /\ grab.last_loc = Px(50, -10)

Min(a, b) == IF a <= b THEN a ELSE b

\* C16. Closed form: for a grab motion event that passes the combined guard on a
\* group of the grab's orientation, with T the sum of the two sizes at the
\* boundary and m the per-pane minimum, the new left size is
\* min(max(a + delta, m), T - m) and the new right size is T minus that.
C16_ClosedForm ==
    [][ ( /\ GrabMotionStep
          /\ PairReached(output_alive, queues, grab)
          /\ NodeOf(queues, grab).orientation = grab.orientation
          /\ SizeLeft(queues, grab) + SizeRight(queues, grab)
                >= 2 * PaneMin(grab.orientation) )
        => LET a == SizeLeft(queues, grab)
               T == SizeLeft(queues, grab) + SizeRight(queues, grab)
               m == PaneMin(grab.orientation)
           IN  /\ SizeLeft(queues', grab) = Min(Max(a + ev'.delta, m), T - m)
               /\ SizeRight(queues', grab) = T - SizeLeft(queues', grab) ]_vars

\* [400, 400] dragged by -200: the left sibling stopped at 360
C16_Witness ==
    /\ ev.kind = "grab_motion" /\ ev.outcome = "resized" /\ ev.delta = -200
    /\ grab.active /\ grab.orientation = Vertical
    /\ NodeOf(queues, grab).sizes = <<360, 440>>

\* [400, 400] dragged by +200 in one event: min(max(600, 360), 440) = 440
C16_WitnessRightFloor ==
    /\ ev.kind = "grab_motion" /\ ev.outcome = "resized" /\ ev.delta = 200
    /\ grab.active /\ grab.orientation = Vertical
    /\ grab.last_loc = Px(200, 0)
    /\ NodeOf(queues, grab).sizes = <<440, 360>>
    /\ Len(pending_blockers) = 2

\* C17 as claimed. No grab without a held button: a ResizeForkGrab is never the
\* active grab while no button is pressed, in every interleaving of the arming
\* press, the deferred installation and later button events.
C17_NoGrabWithoutButton ==
    grab.active => pressed # {}

\* the motion event about to be handled gets as far as the redistribution: output
\* and queue resolve, the node is a Group with both siblings, and the sum of the
\* pair is not below the combined minimum of the group
ReachesRedistribution ==
    /\ TreeReached
    /\ PairReached(output_alive, queues, grab)
    /\ SizeLeft(queues, grab) + SizeRight(queues, grab)
          >= (IF NodeOf(queues, grab).orientation = Vertical THEN 720 ELSE 480)

\* C18. last_loc bookkeeping: a grab motion event sets last_loc to the location
\* of the event exactly when it reaches the redistribution, and then also runs
\* the solver and appends its blockers; an event that is vetoed, skipped for an
\* unresolved output or a missing queue, or that ends the grab, leaves last_loc
\* (and the rest of the grab) as it was or leaves no grab.
C18_LastLoc ==
    [][ GrabMotionStep
        => IF ReachesRedistribution
           THEN /\ grab'.active
                /\ grab'.last_loc = location'
                /\ ev'.outcome = "resized"
                /\ pending_blockers' =
                     pending_blockers
                       \o update_positions(Last(queues.trees), Last(queues'.trees))
           ELSE /\ grab' = grab \/ grab' = NoGrab
                /\ ev'.outcome # "resized"
                /\ queues' = queues ]_vars

\* a vetoed motion event: the pointer is at (50, -10) and last_loc is still (0, 0)
C18_Witness ==
    /\ ev.kind = "grab_motion" /\ ev.outcome = "veto"
    /\ grab.active /\ grab.last_loc = Px(0, 0)
    /\ location = Px(50, -10)

\* a skipped motion event after a handled one: last_loc is where the handled
\* event left it
C18_WitnessSkip ==
    /\ ev.kind = "grab_motion" /\ ev.outcome = "no_output"
    /\ grab.active /\ grab.last_loc = Px(50, -10)
    /\ location = Px(0, 0)

\* the coordinate of a location along the resize axis of orientation o
Axis(o, loc) == IF o = Vertical THEN loc[1] ELSE loc[2]

\* C19. Pointer tracking: during one drag whose motion events all came at
\* whole-pixel locations, and of which none was clamped at a floor or vetoed, the
\* left size of the boundary is its value when the grab was set plus the
\* displacement of the pointer along the resize axis since then, however the
\* path was split into motion events.
C19_PointerTracking ==
    ( /\ grab.active
      /\ origin.exact
      /\ PairReached(output_alive, queues, grab) )
    => SubPixel * SizeLeft(queues, grab)
         = SubPixel * origin.size
             + Axis(grab.orientation, location) - Axis(grab.orientation, origin.loc)

\* [500, 500] followed the pointer to x = 50 and back to x = 1 in two motion events
C19_Witness ==
    /\ ev.kind = "grab_motion" /\ ev.outcome = "resized" /\ ev.delta = -49
    /\ grab.active /\ grab.orientation = Vertical
    /\ origin = [size |-> 500, loc |-> Px(0, 0), exact |-> TRUE]
    /\ location = Px(1, 0)
    /\ NodeOf(queues, grab).sizes = <<501, 499>>

\* C20. Session-lock registry: after any sequence of lock, unlock and new_surface
\* calls there is a registry of lock surfaces exactly while the session is
\* locked, and it holds, for every output, the surface of the latest new_surface
\* call since the most recent lock call that named a resource of that output,
\* and nothing else: new_surface while unlocked registers nothing, unlock
\* discards the registry, lock on a locked session starts from an empty one.
C20_LockRegistry ==
    /\ session_lock.some <=> lock_log.locked
    /\ session_lock.some => session_lock.surfaces = lock_log.given
    /\ ~session_lock.some => session_lock = None

\* locked, two outputs have a lock surface, and the last call named an output
\* that is gone
C20_Witness ==
    /\ ev.kind = "new_surface" /\ ev.outcome = "ignored"
    /\ session_lock.some /\ lock_log.locked
    /\ session_lock.surfaces = [o \in Outputs |->
                                  IF o = "out1" THEN 2 ELSE IF o = "out2" THEN 1 ELSE NoSurface]

\* a new_surface call for an output that resolves came while the session was
\* unlocked: there is no registry
C20_WitnessUnlocked ==
    /\ ev.kind = "new_surface" /\ ev.outcome = "ignored"
    /\ ~session_lock.some /\ ~lock_log.locked
    /\ lock_log.given # EmptySurfaces

====
